---- MODULE Spec2Model ----
(***************************************************************************)
(* Model of the document classifier (foundanand/document_classifier_poc).  *)
(*                                                                         *)
(*   src/app/api/routes.py             POST /classify                      *)
(*   src/app/services/classifier.py    DocumentClassifier                  *)
(*   src/app/utils/pdf_processor.py    PDFProcessor                        *)
(*   src/app/utils/openrouter_client.py OpenRouterClient                   *)
(*                                                                         *)
(* Strings are sequences of one-character strings; a Python index i is the *)
(* TLA+ index i + 1, and every offset below (start, end, pos) is a Python  *)
(* 0-based offset.  A confidence is kept in tenths (0.5 is 5, 1.0 is 10).  *)
(*                                                                         *)
(* Five specifications share the state:                                    *)
(*   Spec         a request served by the application, from the route to   *)
(*                the response, with the module-level pdf_processor        *)
(*                (chunk_size 2000, chunk_overlap 200);                    *)
(*   SpecChunk    PDFProcessor(chunk_size, chunk_overlap).chunk_text(text) *)
(*                called on its own, for every small text and              *)
(*                configuration;                                           *)
(*   SpecChunkAll SpecChunk and chunk_text on long texts with the default  *)
(*                configuration;                                           *)
(*   SpecServer   several requests in flight in one server process;        *)
(*   SpecRun      the runs of Spec and of SpecChunk, for termination.      *)
(***************************************************************************)
EXTENDS Integers, Sequences, FiniteSets, TLC

VARIABLES
    req,                \* per request: the coroutine's position and locals
    arrivals,           \* the requests the environment has yet to send
    loop,               \* the request running on the event loop (0: none)
    openrouter_client,  \* openrouter_client.py:221, the module-level handle
    api_key,            \* whether OPENROUTERAI_API_KEY is set in the environment
    created,            \* how many OpenRouterClient objects have been constructed
    routing_rules,      \* classifier.py:26, document_classifier.routing_rules
    pdf_processor,      \* pdf_processor.py:171, the PDFProcessor in use
    calls               \* the calls made to the LLM service, in order

vars == <<req, arrivals, loop, openrouter_client, api_key, created,
          routing_rules, pdf_processor, calls>>

-----------------------------------------------------------------------------
(* Bounds of the model.                                                    *)

NumReqs == 2          \* request slots (Spec sends one request, SpecServer all)
MaxLen == 5           \* SpecChunk: longest text enumerated exhaustively
MaxChunkSize == 3     \* SpecChunk: largest chunk_size enumerated
MaxOverlap == 2       \* SpecChunk: largest chunk_overlap enumerated
MaxExtra == 400       \* Spec: how far the longest document exceeds the threshold

Reqs == 1..NumReqs

-----------------------------------------------------------------------------
(* Program constants.                                                      *)

DefaultChunkSize == 2000
DefaultChunkOverlap == 200
SentenceWindow == 200
WordWindow == 50
LargeThreshold == 3000

-----------------------------------------------------------------------------
(* Strings.                                                                *)

Chars == {"a", " ", ".", "\n"}
Whitespace == {" ", "\n", "\t", "\r"}

Min(a, b) == IF a < b THEN a ELSE b
Max(a, b) == IF a > b THEN a ELSE b

SetMax(S) == CHOOSE x \in S : \A y \in S : y <= x

\* text[a:b] for 0 <= a, b <= len(text)
Slice(text, a, b) == SubSeq(text, a + 1, b)

RECURSIVE LStripFrom(_, _, _)
LStripFrom(text, a, b) ==
    IF a < b /\ text[a + 1] \in Whitespace THEN LStripFrom(text, a + 1, b) ELSE a

RECURSIVE RStripTo(_, _, _)
RStripTo(text, a, b) ==
    IF a < b /\ text[b] \in Whitespace THEN RStripTo(text, a, b - 1) ELSE b

\* text[a:b].strip()
StripSlice(text, a, b) ==
    LET lo == LStripFrom(text, a, b)
        hi == RStripTo(text, lo, b)
    IN  Slice(text, lo, hi)

Strip(text) == StripSlice(text, 0, Len(text))

\* text[lo:hi].rfind(c1 + c2): the offset in the window, or -1
RFind2(text, lo, hi, c1, c2) ==
    LET hits == {p \in lo..(hi - 2) : text[p + 1] = c1 /\ text[p + 2] = c2}
    IN  IF hits = {} THEN -1 ELSE SetMax(hits) - lo

\* text[lo:hi].rfind(c)
RFind1(text, lo, hi, c) ==
    LET hits == {p \in lo..(hi - 1) : text[p + 1] = c}
    IN  IF hits = {} THEN -1 ELSE SetMax(hits) - lo

-----------------------------------------------------------------------------
(* PDFProcessor.chunk_text, pdf_processor.py:102-153.                      *)

sentence_endings == <<(<<".", " ">>), (<<"!", " ">>), (<<"?", " ">>), (<<"\n", "\n">>)>>

\* lines 129-133: the largest rfind over the sentence endings
BestBreak(text, lo, hi) ==
    SetMax({-1} \cup {RFind2(text, lo, hi, sentence_endings[i][1], sentence_endings[i][2]) :
                        i \in 1..Len(sentence_endings)})

\* ChunkEnd with the sentence break placed one character too far (line 137
\* with + 3 for + 2); C10 fails on it.
ChunkEndPastBreak(text, start, chunk_size) ==
    LET end == Min(start + chunk_size, Len(text))
        slo == Max(0, end - SentenceWindow)
        best_break == BestBreak(text, slo, end)
        wlo == Max(0, end - WordWindow)
        space_pos == RFind1(text, wlo, end, " ")
    IN  IF end < Len(text)
        THEN IF best_break > -1 THEN slo + best_break + 3
             ELSE IF space_pos > -1 THEN wlo + space_pos
             ELSE end
        ELSE end

\* lines 121-143: the end of the chunk that starts at start
ChunkEnd(text, start, chunk_size) ==
    LET end == Min(start + chunk_size, Len(text))
        slo == Max(0, end - SentenceWindow)
        best_break == BestBreak(text, slo, end)
        wlo == Max(0, end - WordWindow)
        space_pos == RFind1(text, wlo, end, " ")
    IN  IF end < Len(text)
        THEN IF best_break > -1 THEN slo + best_break + 2
             ELSE IF space_pos > -1 THEN wlo + space_pos
             ELSE end
        ELSE end

\* NextStart that may leave start where it is (line 150 with start for
\* start + 1); C13 fails on it.
NextStartStalled(start, end, chunk_overlap) == Max(start, end - chunk_overlap)

\* line 150
NextStart(start, end, chunk_overlap) == Max(start + 1, end - chunk_overlap)

-----------------------------------------------------------------------------
(* Values.                                                                 *)

\* A JSON value as json.loads returns it: t is its Python type, s the string
\* (t = "str"), n the number in tenths (t = "num") or the truth value as 0/1
\* (t = "bool"), e the text of the exception a diagnostic string ends with.
J(t, s, n) == [t |-> t, s |-> s, n |-> n, e |-> ""]
Str(s) == J("str", s, 0)
Num(n) == J("num", "", n)
Bool(b) == J("bool", "", IF b THEN 1 ELSE 0)
Null == J("null", "", 0)
NaN == J("nan", "", 0)
List == J("list", "", 0)
Dict == J("dict", "", 0)
\* f"{s}{str(e)}"
Diag(s, e) == [t |-> "str", s |-> s, n |-> 0, e |-> e]

NoFile == [content_type |-> "", ext |-> "", big |-> FALSE, content |-> <<>>]
NoDict == [category |-> Null, confidence |-> Null, summary |-> Null]
NoResult == [label |-> "", confidence |-> Null, routing |-> "", summary |-> Null]

NoReply == [status |-> "", tokens |-> <<>>]

\* A request that has not arrived.  Its fields are the locals of the
\* coroutine: file, text, the loop state of chunk_text (start, chunks), the
\* chunks selected, the text to classify (input), the reply of the
\* classification call while the client handles it, classification_result
\* and the result; ranges, branch, stages and outcome record what happened.
IdleReq ==
    [pc |-> "idle", file |-> NoFile, text |-> <<>>,
     start |-> 0, chunks |-> <<>>, ranges |-> <<>>,
     selected |-> <<>>, input |-> <<>>, branch |-> "",
     reply |-> NoReply, classification_result |-> NoDict, result |-> NoResult,
     outcome |-> "none", stages |-> <<>>]

\* classifier.py:11-17
ROUTING_RULES ==
    [k \in {"Invoice", "Purchase Order", "Contract", "Expense Report", "Other"} |->
        CASE k = "Invoice" -> "Accounts Payable"
          [] k = "Purchase Order" -> "Procurement"
          [] k = "Contract" -> "Legal"
          [] k = "Expense Report" -> "Finance"
          [] OTHER -> "Back Office (Review)"]

\* pdf_processor.py:15-24 and 171: PDFProcessor(chunk_size, chunk_overlap)
PDFProcessor(chunk_size, chunk_overlap) ==
    [chunk_size |-> chunk_size, chunk_overlap |-> chunk_overlap]

Set(r, f) == req' = [req EXCEPT ![r] = f]

-----------------------------------------------------------------------------
(* The model's reply to a classification call.  The content is a sequence  *)
(* of tokens: a code fence (three backquotes, with json or without), prose *)
(* or a JSON text.  A                                                      *)
(* JSON text is described by what json.loads and the recovery regex make   *)
(* of it: kind is the type of the parsed value ("malformed": it does not   *)
(* parse); keys are the object's keys (the members of an array, the        *)
(* substrings of a string); has_key is whether "category" in quotes occurs *)
(* in the text, and regex is group(1) of the first match of                *)
(* r'"category":\s*"([^"]+)"' in it ("" when there is none).               *)

RequiredKeys == {"category", "confidence", "summary"}

JsonText(kind, keys, category, confidence, summary, has_key, regex) ==
    [kind |-> kind, keys |-> keys, category |-> category, confidence |-> confidence,
     summary |-> summary, has_key |-> has_key, regex |-> regex]

Object(keys, category, confidence, summary) ==
    JsonText("object", keys, category, confidence, summary,
             "category" \in keys,
             IF "category" \in keys /\ category.t = "str" THEN category.s ELSE "")

NonObject(kind, keys) ==
    JsonText(kind, keys, Null, Null, Null, kind = "array" /\ "category" \in keys, "")

Malformed(has_key, regex) ==
    JsonText("malformed", {}, Null, Null, Null, has_key, regex)

Token(tok, json) == [tok |-> tok, json |-> json]
FenceJson == Token("fence_json", Malformed(FALSE, ""))
Fence == Token("fence", Malformed(FALSE, ""))
Prose == Token("prose", Malformed(FALSE, ""))
Json(j) == Token("json", j)

\* three backquotes occur in the token
IsFence(token) == token.tok \in {"fence_json", "fence"}

SetMin(S) == CHOOSE x \in S : \A y \in S : x <= y

\* openrouter_client.py:95-108: the tokens json.loads is given
StripFences(tokens) ==
    LET json_fences == {i \in 1..Len(tokens) : tokens[i].tok = "fence_json"}
        fences == {i \in 1..Len(tokens) : IsFence(tokens[i])}
    IN  IF json_fences # {}
        THEN LET i == SetMin(json_fences)
                 after == {j \in fences : j > i}
             IN  IF after # {} /\ SetMin(after) - 1 > i
                 THEN SubSeq(tokens, i + 1, SetMin(after) - 1)
                 ELSE tokens
        ELSE IF fences # {}
        THEN LET i == SetMin(fences)
                 j == SetMax(fences)
             IN  IF j - 1 > i THEN SubSeq(tokens, i + 1, j - 1) ELSE tokens
        ELSE tokens

\* line 110: whether json.loads raises JSONDecodeError
JSONDecodeError(tokens) ==
    ~ (Len(tokens) = 1 /\ tokens[1].tok = "json" /\ tokens[1].json.kind # "malformed")

\* Fallback with the confidence of the recovery branch (0.5 for 0.0 at line
\* 160); C2 fails on it.
FallbackHalf(e) ==
    [category |-> Str("Other"), confidence |-> Num(5),
     summary |-> Diag("Classification error: ", e)]

\* lines 155-162: the fallback response
Fallback(e) ==
    [category |-> Str("Other"), confidence |-> Num(0),
     summary |-> Diag("Classification error: ", e)]

\* line 113, all(key in result for key in [...]): "ok", or the exception raised
RequiredFields(result) ==
    CASE result.kind = "object" ->
            IF RequiredKeys \subseteq result.keys THEN "ok"
            ELSE "Missing required fields in AI response"
      [] result.kind \in {"array", "string"} ->
            IF RequiredKeys \subseteq result.keys
            THEN "TypeError: indices must be integers"
            ELSE "AttributeError: object has no attribute keys"
      [] OTHER -> "TypeError: argument is not iterable"

\* UnknownCategory that accepts every string (line 118 testing the type
\* only); C1 fails on it.
UnknownCategoryAnyString(category, rules) == category.t # "str"

\* line 118: result["category"] not in routing_rules, for a hashable category
UnknownCategory(category, rules) ==
    ~ (category.t = "str" /\ category.s \in DOMAIN rules)

\* line 123: not isinstance(confidence, (int, float)) or not (0 <= confidence <= 1);
\* bool is a subclass of int, and every comparison with nan is false
InvalidConfidence(confidence) ==
    \/ confidence.t \notin {"num", "bool", "nan"}
    \/ confidence.t = "nan"
    \/ ~ (0 <= confidence.n /\ confidence.n <= 10)

\* lines 112-128, on the parsed value
Validate(result, rules) ==
    IF RequiredFields(result) # "ok" THEN Fallback(RequiredFields(result))
    ELSE IF result.category.t \in {"list", "dict"}
    THEN Fallback("TypeError: unhashable type")
    ELSE [category |-> IF UnknownCategory(result.category, rules)
                       THEN Str("Other") ELSE result.category,
          confidence |-> IF InvalidConfidence(result.confidence)
                         THEN Num(5) ELSE result.confidence,
          summary |-> result.summary]

\* lines 130-153, on the raw result_text
Recover(tokens, rules) ==
    LET matches == {i \in 1..Len(tokens) : tokens[i].tok = "json" /\ tokens[i].json.regex # ""}
        has_key == \E i \in 1..Len(tokens) : tokens[i].tok = "json" /\ tokens[i].json.has_key
        group1 == IF matches = {} THEN "" ELSE tokens[SetMin(matches)].json.regex
    IN  [category |-> IF has_key /\ matches # {} /\ group1 \in DOMAIN rules
                      THEN Str(group1) ELSE Str("Other"),
         confidence |-> Num(5),
         summary |-> Str("Classification failed - manual review required")]

\* OpenRouterClient.classify_document, lines 67-162, from the reply on
OpenRouterClassify(reply, rules) ==
    CASE reply.status = "raise" -> Fallback("Connection error.")
      [] reply.status = "none" ->
            Fallback("AttributeError: NoneType object has no attribute strip")
      [] OTHER ->
            LET cleaned_text == StripFences(reply.tokens)
            IN  IF JSONDecodeError(cleaned_text)
                THEN Recover(reply.tokens, rules)
                ELSE Validate(cleaned_text[1].json, rules)

\* OpenRouterClient.summarize_chunks, lines 199-218, from the reply on
Summarize(reply) ==
    CASE reply.status = "raise" -> <<"Summarization failed: ", "Connection error.">>
      [] reply.status = "none" ->
            <<"Unable to summarize document - API returned empty response">>
      [] OTHER ->
            IF Strip(reply.content) = <<>>
            THEN <<"Unable to summarize document - empty response from AI model">>
            ELSE Strip(reply.content)

\* GetClient that constructs a client on every call (line 226 without the
\* test for None); C16 fails on it.
GetClientAlways(client, key, n) ==
    IF key THEN [raised |-> FALSE, client |-> "OpenRouterClient", created |-> n + 1]
    ELSE [raised |-> TRUE, client |-> "None", created |-> n]

\* get_openrouter_client, lines 223-228, with OpenRouterClient.__init__, 30-48:
\* the handle and the count of clients after the call, and whether it raised
GetClient(client, key, n) ==
    IF client # "None" THEN [raised |-> FALSE, client |-> client, created |-> n]
    ELSE IF key THEN [raised |-> FALSE, client |-> "OpenRouterClient", created |-> n + 1]
    ELSE [raised |-> TRUE, client |-> "None", created |-> n]

-----------------------------------------------------------------------------
(* chunk_text as the steps of a request, pdf_processor.py:112-153.  ranges *)
(* keeps, for each chunk appended, the [start, end) it was cut from.       *)

\* lines 112-117
ChunkEnter(r) ==
    /\ loop = r
    /\ req[r].pc = "chunk_text"
    /\ LET text == req[r].text
       IN  IF Len(text) <= pdf_processor.chunk_size
           THEN Set(r, [req[r] EXCEPT !.pc = "chunk_done",
                                      !.chunks = <<text>>,
                                      !.ranges = <<(<<0, Len(text)>>)>>,
                                      !.stages = Append(@, "Chunked")])
           ELSE Set(r, [req[r] EXCEPT !.pc = "chunk_loop",
                                      !.chunks = <<>>,
                                      !.ranges = <<>>,
                                      !.start = 0])
    /\ UNCHANGED <<arrivals, loop, openrouter_client, api_key, created,
                   routing_rules, pdf_processor, calls>>

\* lines 119-150: one iteration of the while loop
ChunkIter(r) ==
    /\ loop = r
    /\ req[r].pc = "chunk_loop"
    /\ req[r].start < Len(req[r].text)
    /\ LET text == req[r].text
           start == req[r].start
           end == ChunkEnd(text, start, pdf_processor.chunk_size)
           chunk == StripSlice(text, start, Max(start, end))
       IN  Set(r, [req[r] EXCEPT
                !.chunks = IF chunk # <<>> THEN Append(@, chunk) ELSE @,
                !.ranges = IF chunk # <<>> THEN Append(@, <<start, end>>) ELSE @,
                !.start = NextStart(start, end, pdf_processor.chunk_overlap)])
    /\ UNCHANGED <<arrivals, loop, openrouter_client, api_key, created,
                   routing_rules, pdf_processor, calls>>

\* lines 119, 152-153: the loop condition fails and the chunks are returned
ChunkExit(r) ==
    /\ loop = r
    /\ req[r].pc = "chunk_loop"
    /\ req[r].start >= Len(req[r].text)
    /\ Set(r, [req[r] EXCEPT !.pc = "chunk_done", !.stages = Append(@, "Chunked")])
    /\ UNCHANGED <<arrivals, loop, openrouter_client, api_key, created,
                   routing_rules, pdf_processor, calls>>

-----------------------------------------------------------------------------
(* Inputs.                                                                 *)

\* pat repeated up to n characters
Repeat(pat, n) == [i \in 1..n |-> pat[((i - 1) % Len(pat)) + 1]]

Patterns ==
    { <<"a">>,
      <<"a", "a", "a", " ">>,
      <<"a", "b", ".", " ", "c", "!", " ", "d", "\n", "\n">> }

SmallTexts == UNION {[1..n -> Chars] : n \in 0..MaxLen}

SmallConfigs ==
    {PDFProcessor(cs, ov) : cs \in 1..MaxChunkSize, ov \in 0..MaxOverlap}

LongTexts ==
    {Repeat(p, n) : p \in Patterns,
                    n \in {DefaultChunkSize, DefaultChunkSize + 1, LargeThreshold + MaxExtra}}

-----------------------------------------------------------------------------
(* SpecChunk: chunk_text called on its own, on every text of at most       *)
(* MaxLen characters under every small configuration.  SpecChunkAll adds   *)
(* the long texts under the default configuration, where the 200 and 50    *)
(* character windows lie inside the chunk.                                 *)

ChunkCall(t, p) ==
    /\ req = [r \in Reqs |-> IF r = 1
                             THEN [IdleReq EXCEPT !.pc = "chunk_text", !.text = t]
                             ELSE IdleReq]
    /\ pdf_processor = p
    /\ arrivals = {}
    /\ loop = 1
    /\ openrouter_client = "None"
    /\ api_key = TRUE
    /\ created = 0
    /\ routing_rules = ROUTING_RULES
    /\ calls = <<>>

InitChunk == \E t \in SmallTexts, p \in SmallConfigs : ChunkCall(t, p)

InitChunkLong ==
    \E t \in LongTexts : ChunkCall(t, PDFProcessor(DefaultChunkSize, DefaultChunkOverlap))

NextChunk == \E r \in Reqs : ChunkEnter(r) \/ ChunkIter(r) \/ ChunkExit(r)

SpecChunk == InitChunk /\ [][NextChunk]_vars

SpecChunkAll == (InitChunk \/ InitChunkLong) /\ [][NextChunk]_vars

-----------------------------------------------------------------------------
(* The requests served by the application.  The event loop runs one        *)
(* coroutine at a time: a request takes the loop when it resumes, and      *)
(* gives it up where it awaits I/O (file.read()) or has responded.  The    *)
(* calls to the LLM service are made with the synchronous OpenAI client,   *)
(* so the request keeps the loop while it waits for the reply.             *)

\* "\n\n".join(chunks) and CHUNK_SEPARATOR.join(chunks), prompts.py:49
RECURSIVE Join(_, _)
Join(chunks, sep) ==
    IF chunks = <<>> THEN <<>>
    ELSE IF Len(chunks) = 1 THEN chunks[1]
    ELSE chunks[1] \o sep \o Join(Tail(chunks), sep)

CHUNK_SEPARATOR == <<"\n", "\n", "--- CHUNK SEPARATOR ---", "\n", "\n">>

\* classifier.py:127-132: the chunks without repetitions, in order
RECURSIVE Unique(_)
Unique(chunks) ==
    IF chunks = <<>> THEN <<>>
    ELSE LET init == Unique(SubSeq(chunks, 1, Len(chunks) - 1))
             last == chunks[Len(chunks)]
         IN  IF \E i \in 1..Len(init) : init[i] = last THEN init ELSE Append(init, last)

\* classifier.py:112-124: first three, two around the middle, last three
Representative(chunks) ==
    LET chunk_count == Len(chunks)
        mid_start == Max(3, (chunk_count \div 2) - 1)
        mid_end == Min(chunk_count - 3, (chunk_count \div 2) + 1)
    IN  Slice(chunks, 0, Min(3, chunk_count))
        \o Slice(chunks, mid_start, mid_end)
        \o Slice(chunks, Max(0, chunk_count - 3), chunk_count)

\* is_large_document that counts a text of exactly threshold characters as
\* large (line 166 with >= for >); C11 fails on it.
is_large_documentAtThreshold(text) == Len(text) >= LargeThreshold

\* pdf_processor.py:155-168, with the default threshold
is_large_document(text) == Len(text) > LargeThreshold

\* classifier.py:47-53
NoTextResult ==
    [label |-> "Other", confidence |-> Num(0), routing |-> routing_rules["Other"],
     summary |-> Str("No readable text found in document")]

\* classifier.py:80-89
ErrorResult(e) ==
    [label |-> "Other", confidence |-> Num(0), routing |-> routing_rules["Other"],
     summary |-> Diag("Classification failed: ", e)]

\* classifier.py:168-174
LargeFailure(e) ==
    [category |-> Str("Other"), confidence |-> Num(0),
     summary |-> Diag("Large document classification failed: ", e)]

\* FinalResult that routes every label to the review queue (line 71 reading
\* routing_rules["Other"]); C6 fails on it.
FinalResultReview(classification_result) ==
    IF classification_result.category.t = "str"
       /\ classification_result.category.s \in DOMAIN routing_rules
    THEN [label |-> classification_result.category.s,
          confidence |-> classification_result.confidence,
          routing |-> routing_rules["Other"],
          summary |-> classification_result.summary]
    ELSE [label |-> "Other", confidence |-> Num(0), routing |-> routing_rules["Other"],
          summary |-> Diag("Classification failed: ", "KeyError")]

\* classifier.py:67-73; a category that is no key of routing_rules raises
\* KeyError, which lines 80-89 turn into the error result
FinalResult(classification_result) ==
    IF classification_result.category.t = "str"
       /\ classification_result.category.s \in DOMAIN routing_rules
    THEN [label |-> classification_result.category.s,
          confidence |-> classification_result.confidence,
          routing |-> routing_rules[classification_result.category.s],
          summary |-> classification_result.summary]
    ELSE ErrorResult("KeyError")

NoApiKey == "OPENROUTERAI_API_KEY not found in environment variables"

\* routes.py:24-55: the route validates the upload and calls the classifier,
\* which awaits file.read() (pdf_processor.py:73)
Receive(r, file) ==
    /\ loop = 0
    /\ r \in arrivals
    /\ req[r].pc = "idle"
    /\ arrivals' = arrivals \ {r}
    /\ LET file_valid == \/ file.content_type \in {"application/pdf", "text/plain"}
                         \/ file.ext \in {".pdf", ".txt"}
       IN  Set(r, [req[r] EXCEPT
                !.file = file,
                !.pc = IF file_valid /\ ~file.big THEN "read" ELSE "done",
                !.outcome = IF ~file_valid THEN "HTTP 400"
                            ELSE IF file.big THEN "HTTP 413" ELSE "none",
                !.stages = IF file_valid /\ ~file.big THEN <<"Received">> ELSE <<>>])
    /\ UNCHANGED <<loop, openrouter_client, api_key, created, routing_rules,
                   pdf_processor, calls>>

\* pdf_processor.py:72-100 and 37-60, called at classifier.py:43; what it
\* raises is caught at classifier.py:80-89
ExtractText(r, pdf_raises) ==
    /\ loop = 0
    /\ req[r].pc = "read"
    /\ loop' = r
    /\ LET file == req[r].file
           is_pdf == file.content_type = "application/pdf" \/ file.ext = ".pdf"
           is_txt == file.content_type = "text/plain" \/ file.ext = ".txt"
       IN  /\ pdf_raises => is_pdf
           /\ IF is_pdf /\ pdf_raises
              THEN Set(r, [req[r] EXCEPT
                      !.pc = "respond",
                      !.result = ErrorResult("Failed to process uploaded file: Failed to extract text from PDF"),
                      !.stages = Append(@, "ResultBuilt")])
              ELSE IF is_pdf \/ is_txt
              THEN Set(r, [req[r] EXCEPT
                      !.pc = "extracted",
                      !.text = Strip(file.content),
                      !.stages = Append(@, "TextExtracted")])
              ELSE Set(r, [req[r] EXCEPT
                      !.pc = "respond",
                      !.result = ErrorResult("Failed to process uploaded file: Unsupported file type"),
                      !.stages = Append(@, "ResultBuilt")])
    /\ UNCHANGED <<arrivals, openrouter_client, api_key, created, routing_rules,
                   pdf_processor, calls>>

\* CheckText without the test for an empty text (lines 45-53 left out); C5
\* fails on it.
CheckTextUnguarded(r) ==
    /\ loop = r
    /\ req[r].pc = "extracted"
    /\ LET text == req[r].text
       IN  Set(r, [req[r] EXCEPT
               !.pc = IF is_large_document(text) THEN "chunk_text" ELSE "small",
               !.branch = IF is_large_document(text) THEN "large" ELSE "small",
               !.stages = Append(@, "SizeEvaluated")])
    /\ UNCHANGED <<arrivals, loop, openrouter_client, api_key, created,
                   routing_rules, pdf_processor, calls>>

\* classifier.py:45-60
CheckText(r) ==
    /\ loop = r
    /\ req[r].pc = "extracted"
    /\ LET text == req[r].text
       IN  IF Strip(text) = <<>>
           THEN Set(r, [req[r] EXCEPT !.pc = "respond",
                                      !.result = NoTextResult,
                                      !.stages = Append(@, "ResultBuilt")])
           ELSE Set(r, [req[r] EXCEPT
                   !.pc = IF is_large_document(text) THEN "chunk_text" ELSE "small",
                   !.branch = IF is_large_document(text) THEN "large" ELSE "small",
                   !.stages = Append(@, "SizeEvaluated")])
    /\ UNCHANGED <<arrivals, loop, openrouter_client, api_key, created,
                   routing_rules, pdf_processor, calls>>

\* classifier.py:61-64, up to the call of the client's classify_document
GetClientSmall(r) ==
    /\ loop = r
    /\ req[r].pc = "small"
    /\ LET got == GetClient(openrouter_client, api_key, created)
       IN  /\ openrouter_client' = got.client
           /\ created' = got.created
           /\ IF got.raised
              THEN Set(r, [req[r] EXCEPT !.pc = "respond",
                                         !.result = ErrorResult(NoApiKey),
                                         !.stages = Append(@, "ResultBuilt")])
              ELSE Set(r, [req[r] EXCEPT !.pc = "classify", !.input = req[r].text])
    /\ UNCHANGED <<arrivals, loop, api_key, routing_rules, pdf_processor, calls>>

\* classifier.py:108-163, from the chunks to the first call of the client
SelectChunks(r) ==
    /\ loop = r
    /\ req[r].pc = "chunk_done"
    /\ LET chunks == req[r].chunks
           unique_chunks == Unique(Representative(chunks))
           analysis_chunks == Slice(chunks, 0, Min(5, Len(chunks)))
           combined_text == Join(analysis_chunks, <<"\n", "\n">>)
           got == GetClient(openrouter_client, api_key, created)
       IN  /\ openrouter_client' = got.client
           /\ created' = got.created
           /\ IF got.raised
              THEN Set(r, [req[r] EXCEPT
                      !.pc = "build",
                      !.selected = IF Len(chunks) > 10 THEN unique_chunks ELSE analysis_chunks,
                      !.classification_result = LargeFailure(NoApiKey),
                      !.stages = Append(@, "Sampled")])
              ELSE IF Len(chunks) > 10
              THEN Set(r, [req[r] EXCEPT !.pc = "summarize",
                                         !.selected = unique_chunks,
                                         !.stages = Append(@, "Sampled")])
              ELSE IF Len(combined_text) > 8000
              THEN Set(r, [req[r] EXCEPT !.pc = "summarize",
                                         !.selected = analysis_chunks,
                                         !.stages = Append(@, "Sampled")])
              ELSE Set(r, [req[r] EXCEPT !.pc = "classify",
                                         !.selected = analysis_chunks,
                                         !.input = combined_text,
                                         !.stages = Append(@, "Sampled")])
    /\ UNCHANGED <<arrivals, loop, api_key, routing_rules, pdf_processor, calls>>

Call(r, op, input) == [req |-> r, op |-> op, input |-> input, status |-> "pending"]

\* openrouter_client.py:175-197: the summarization request is sent
SummarizeCall(r) ==
    /\ loop = r
    /\ req[r].pc = "summarize"
    /\ calls' = Append(calls, Call(r, "summarize", Join(req[r].selected, CHUNK_SEPARATOR)))
    /\ Set(r, [req[r] EXCEPT !.pc = "summarize_wait"])
    /\ UNCHANGED <<arrivals, loop, openrouter_client, api_key, created,
                   routing_rules, pdf_processor>>

SummaryStatus(reply) ==
    IF reply.status = "text" /\ Strip(reply.content) = <<>> THEN "empty" ELSE reply.status

\* SummarizeReturn that hands the full text on to the classification
\* (classifier.py:141 with text for summary_text); C14 fails on it.
SummarizeReturnFullText(r, reply) ==
    /\ loop = r
    /\ req[r].pc = "summarize_wait"
    /\ calls' = [calls EXCEPT ![Len(calls)].status = SummaryStatus(reply)]
    /\ Set(r, [req[r] EXCEPT !.pc = "classify",
                             !.input = req[r].text,
                             !.stages = Append(@, "Summarized")])
    /\ UNCHANGED <<arrivals, loop, openrouter_client, api_key, created,
                   routing_rules, pdf_processor>>

\* openrouter_client.py:189-218: the reply arrives (or the call raises), and
\* classifier.py:138, 156 keep what summarize_chunks returns
SummarizeReturn(r, reply) ==
    /\ loop = r
    /\ req[r].pc = "summarize_wait"
    /\ calls' = [calls EXCEPT ![Len(calls)].status = SummaryStatus(reply)]
    /\ Set(r, [req[r] EXCEPT !.pc = "classify",
                             !.input = Summarize(reply),
                             !.stages = Append(@, "Summarized")])
    /\ UNCHANGED <<arrivals, loop, openrouter_client, api_key, created,
                   routing_rules, pdf_processor>>

\* openrouter_client.py:67-87: the classification request is sent
ClassifyCall(r) ==
    /\ loop = r
    /\ req[r].pc = "classify"
    /\ calls' = Append(calls, Call(r, "classify", req[r].input))
    /\ Set(r, [req[r] EXCEPT !.pc = "classify_wait"])
    /\ UNCHANGED <<arrivals, loop, openrouter_client, api_key, created,
                   routing_rules, pdf_processor>>

\* openrouter_client.py:79-162: the reply arrives (or the call raises) and is
\* turned into the classification result
ClassifyReturn(r, reply) ==
    /\ loop = r
    /\ req[r].pc = "classify_wait"
    /\ calls' = [calls EXCEPT ![Len(calls)].status = reply.status]
    /\ Set(r, [req[r] EXCEPT
            !.pc = "build",
            !.reply = reply,
            !.classification_result = OpenRouterClassify(reply, routing_rules),
            !.stages = Append(@, "Classified")])
    /\ UNCHANGED <<arrivals, loop, openrouter_client, api_key, created,
                   routing_rules, pdf_processor>>

\* classifier.py:66-78
BuildResult(r) ==
    /\ loop = r
    /\ req[r].pc = "build"
    /\ Set(r, [req[r] EXCEPT !.pc = "respond",
                             !.reply = NoReply,
                             !.result = FinalResult(req[r].classification_result),
                             !.stages = Append(@, "ResultBuilt")])
    /\ UNCHANGED <<arrivals, loop, openrouter_client, api_key, created,
                   routing_rules, pdf_processor, calls>>

\* routes.py:55-58: the route returns the classifier's result
Respond(r) ==
    /\ loop = r
    /\ req[r].pc = "respond"
    /\ loop' = 0
    /\ Set(r, [req[r] EXCEPT !.pc = "done", !.outcome = "result"])
    /\ UNCHANGED <<arrivals, openrouter_client, api_key, created, routing_rules,
                   pdf_processor, calls>>

-----------------------------------------------------------------------------
(* The uploads and the replies the model is checked with.                  *)

File(content_type, ext, big, content) ==
    [content_type |-> content_type, ext |-> ext, big |-> big, content |-> content]

SmallDocument == <<" ", "i", "n", "v", "o", "i", "c", "e", " ", "4", "2", ".", "\n">>

Documents ==
    { <<>>, <<" ", "\n">>, SmallDocument,
      Repeat(<<"a">>, LargeThreshold),
      Repeat(<<"a">>, LargeThreshold + 1),
      Repeat(<<"a", "b", ".", " ", "c", "!", " ", "d", "\n", "\n">>, LargeThreshold + MaxExtra) }

Files ==
    {File("text/plain", ".txt", FALSE, d) : d \in Documents}
    \cup {File("application/pdf", ".pdf", FALSE, d) : d \in {<<>>, SmallDocument}}
    \cup {File("image/png", ".txt", FALSE, SmallDocument),
          File("image/png", ".png", FALSE, SmallDocument),
          File("text/plain", ".txt", TRUE, SmallDocument)}

CategoryValues ==
    {Str("Invoice"), Str("Contract"), Str("Other"), Str("Banana"), Str(""),
     Num(10), Null, Bool(TRUE), List}

ConfidenceValues ==
    {Num(-1), Num(0), Num(9), Num(10), Num(11), Str("high"), Null, Bool(TRUE), NaN, List}

SummaryValues == {Str("A supplier invoice."), Null}

JsonTexts ==
    {Object(RequiredKeys, c, f, s) :
        c \in CategoryValues, f \in ConfidenceValues, s \in SummaryValues}
    \cup {Object(k, Str("Invoice"), Num(9), Str("A supplier invoice.")) :
            k \in SUBSET RequiredKeys}
    \cup {Object({"category"}, Str("Banana"), Null, Null)}
    \cup {NonObject(kind, k) : kind \in {"array", "string"}, k \in {{}, RequiredKeys}}
    \cup {NonObject(kind, {}) : kind \in {"number", "null", "bool"}}
    \cup {Malformed(FALSE, ""), Malformed(TRUE, ""),
          Malformed(TRUE, "Invoice"), Malformed(TRUE, "Banana")}

Wrappings(j) ==
    { <<Json(j)>>,
      <<FenceJson, Json(j), Fence>>,
      <<Fence, Json(j), Fence>>,
      <<Prose, FenceJson, Json(j), Fence, Prose>>,
      <<FenceJson, Json(j)>>,
      <<Prose, Json(j)>> }

ClassifyReplies ==
    {[status |-> "raise", tokens |-> <<>>], [status |-> "none", tokens |-> <<>>],
     [status |-> "text", tokens |-> <<>>], [status |-> "text", tokens |-> <<FenceJson, Fence>>]}
    \cup {[status |-> "text", tokens |-> w] : w \in UNION {Wrappings(j) : j \in JsonTexts}}

SummaryReplies ==
    {[status |-> "raise", content |-> <<>>],
     [status |-> "none", content |-> <<>>],
     [status |-> "text", content |-> <<" ", "\n">>],
     [status |-> "text", content |-> <<" ", "The document is a supply contract.", "\n">>]}

-----------------------------------------------------------------------------
(* Spec: one request through the application.                              *)

Init ==
    /\ req = [r \in Reqs |-> IdleReq]
    /\ arrivals = {1}
    /\ loop = 0
    /\ openrouter_client = "None"
    /\ api_key \in BOOLEAN
    /\ created = 0
    /\ routing_rules = ROUTING_RULES
    /\ pdf_processor = PDFProcessor(DefaultChunkSize, DefaultChunkOverlap)
    /\ calls = <<>>

Next ==
    \E r \in Reqs :
        \/ \E file \in Files : Receive(r, file)
        \/ \E pdf_raises \in BOOLEAN : ExtractText(r, pdf_raises)
        \/ CheckText(r)
        \/ GetClientSmall(r)
        \/ ChunkEnter(r)
        \/ ChunkIter(r)
        \/ ChunkExit(r)
        \/ SelectChunks(r)
        \/ \E reply \in SummaryReplies : SummarizeReturn(r, reply)
        \/ SummarizeCall(r)
        \/ ClassifyCall(r)
        \/ \E reply \in ClassifyReplies : ClassifyReturn(r, reply)
        \/ BuildResult(r)
        \/ Respond(r)

Spec == Init /\ [][Next]_vars

-----------------------------------------------------------------------------
(* SpecServer: the server process with every request slot in use, so that  *)
(* requests are in flight together on the one event loop and share the     *)
(* module-level client handle.  The uploads and replies are a few of those *)
(* of Spec.                                                                *)

ServerFiles ==
    {File("text/plain", ".txt", FALSE, d) :
        d \in {SmallDocument, Repeat(<<"a">>, LargeThreshold + 1)}}

ServerClassifyReplies ==
    {[status |-> "raise", tokens |-> <<>>],
     [status |-> "text",
      tokens |-> <<Json(Object(RequiredKeys, Str("Invoice"), Num(9), Str("A supplier invoice.")))>>]}

ServerSummaryReplies ==
    {[status |-> "text", content |-> <<" ", "The document is a supply contract.", "\n">>]}

InitServer ==
    /\ req = [r \in Reqs |-> IdleReq]
    /\ arrivals = Reqs
    /\ loop = 0
    /\ openrouter_client = "None"
    /\ api_key \in BOOLEAN
    /\ created = 0
    /\ routing_rules = ROUTING_RULES
    /\ pdf_processor = PDFProcessor(DefaultChunkSize, DefaultChunkOverlap)
    /\ calls = <<>>

NextServer ==
    \E r \in Reqs :
        \/ \E file \in ServerFiles : Receive(r, file)
        \/ \E pdf_raises \in BOOLEAN : ExtractText(r, pdf_raises)
        \/ CheckText(r)
        \/ GetClientSmall(r)
        \/ ChunkEnter(r)
        \/ ChunkIter(r)
        \/ ChunkExit(r)
        \/ SelectChunks(r)
        \/ \E reply \in ServerSummaryReplies : SummarizeReturn(r, reply)
        \/ SummarizeCall(r)
        \/ ClassifyCall(r)
        \/ \E reply \in ServerClassifyReplies : ClassifyReturn(r, reply)
        \/ BuildResult(r)
        \/ Respond(r)

SpecServer == InitServer /\ [][NextServer]_vars

-----------------------------------------------------------------------------
(* SpecRun: one request through the application, or chunk_text called on   *)
(* its own on a small text.  The uploads are those of Spec; the replies to *)
(* a classification call are two of them, since the path of a request does *)
(* not depend on what the reply says.                                      *)

\* chunk_text was called on its own and has returned to its caller
Returned(r) == req[r].pc = "chunk_done" /\ req[r].file = NoFile

NextRun ==
    \E r \in Reqs :
        /\ ~Returned(r)
        /\ \/ \E file \in Files : Receive(r, file)
           \/ \E pdf_raises \in BOOLEAN : ExtractText(r, pdf_raises)
           \/ CheckText(r)
           \/ GetClientSmall(r)
           \/ ChunkEnter(r)
           \/ ChunkIter(r)
           \/ ChunkExit(r)
           \/ SelectChunks(r)
           \/ \E reply \in SummaryReplies : SummarizeReturn(r, reply)
           \/ SummarizeCall(r)
           \/ ClassifyCall(r)
           \/ \E reply \in ServerClassifyReplies : ClassifyReturn(r, reply)
           \/ BuildResult(r)
           \/ Respond(r)

SpecRun == (Init \/ InitChunk) /\ [][NextRun]_vars

-----------------------------------------------------------------------------
(* Claims about a request, checked under Spec.                             *)

Labels == {"Invoice", "Purchase Order", "Contract", "Expense Report", "Other"}

Answered(r) == req[r].pc \in {"respond", "done"} /\ req[r].outcome \in {"none", "result"}
Done(r) == req[r].pc = "done" /\ req[r].outcome = "result"
Reached(r, stage) == \E i \in 1..Len(req[r].stages) : req[r].stages[i] = stage
CallsOf(r, op) == {i \in 1..Len(calls) : calls[i].req = r /\ calls[i].op = op}
IsDiagnostic(summary) == summary.t = "str" /\ summary.s # "" /\ summary.e # ""

\* The reply names category c: a JSON text in it has c as its category, or
\* shows c to the recovery pattern.
Names(reply, c) ==
    \E i \in 1..Len(reply.tokens) :
        /\ reply.tokens[i].tok = "json"
        /\ \/ reply.tokens[i].json.category = Str(c)
           \/ reply.tokens[i].json.regex = c

\* C1: whatever the model replies, the category of the client's
\* classification result is a key of the routing table, and it is a key other
\* than "Other" only when the reply names that key; the label of every result
\* of the classifier is one of the five labels.
C1_CategoryInRoutingTable ==
    \A r \in Reqs :
        /\ req[r].pc = "build" =>
              LET category == req[r].classification_result.category
              IN  /\ category.t = "str"
                  /\ category.s \in DOMAIN routing_rules
                  /\ category.s # "Other" => Names(req[r].reply, category.s)
        /\ Answered(r) => req[r].result.label \in Labels

\* C1 witness: the model named a category outside the table in well-formed
\* JSON and the client answered "Other".
C1_Witness ==
    \E r \in Reqs :
        /\ req[r].pc = "build"
        /\ req[r].reply.status = "text"
        /\ Names(req[r].reply, "Banana")
        /\ ~ JSONDecodeError(StripFences(req[r].reply.tokens))
        /\ req[r].classification_result.category = Str("Other")
        /\ req[r].classification_result.confidence = Num(9)

\* The client could not be created for r, or a classification call of r raised.
ClassificationRaised(r) ==
    \/ ~api_key /\ req[r].branch \in {"small", "large"} /\ ~(req[r].pc \in {"small", "chunk_text", "chunk_loop", "chunk_done"})
    \/ \E i \in CallsOf(r, "classify") : calls[i].status = "raise"

\* C2: when the classification call raises or the client cannot be created,
\* for a small and for a large document, the classifier returns a result with
\* label "Other", confidence 0.0, routing "Back Office (Review)" and a
\* diagnostic summary.
C2_RaisedCallGivesDefault ==
    \A r \in Reqs :
        (req[r].pc = "done" /\ ClassificationRaised(r)) =>
            /\ req[r].outcome = "result"
            /\ req[r].result.label = "Other"
            /\ req[r].result.confidence = Num(0)
            /\ req[r].result.routing = "Back Office (Review)"
            /\ IsDiagnostic(req[r].result.summary)

\* C2 witness: a large document whose classification call raised after a
\* summary was obtained, answered with the default.
C2_Witness ==
    \E r \in Reqs :
        /\ Done(r)
        /\ req[r].branch = "large"
        /\ \E i \in CallsOf(r, "summarize") : calls[i].status = "text"
        /\ \E i \in CallsOf(r, "classify") : calls[i].status = "raise"
        /\ req[r].result.label = "Other"

\* Text extraction failed for r: the request was taken on and ended without
\* the extractor returning a text.
ExtractionFailed(r) ==
    req[r].pc = "done" /\ Reached(r, "Received") /\ ~Reached(r, "TextExtracted")

\* C3: when text extraction fails, the request fails; no classification result
\* is returned for it.
C3_ExtractionFailurePropagates ==
    \A r \in Reqs : ExtractionFailed(r) => req[r].outcome # "result"

\* A summarization call of r raised or returned no content.
SummarizationFailed(r) ==
    \E i \in CallsOf(r, "summarize") : calls[i].status \in {"raise", "none", "empty"}

\* C4: when the summarization call fails, the result is the safe default
\* ("Other", 0.0, a diagnostic summary) and no classification call is made.
C4_FailedSummaryGivesDefault ==
    \A r \in Reqs :
        (req[r].pc = "done" /\ SummarizationFailed(r)) =>
            /\ req[r].result.label = "Other"
            /\ req[r].result.confidence = Num(0)
            /\ IsDiagnostic(req[r].result.summary)
            /\ CallsOf(r, "classify") = {}

\* C5: an empty or whitespace-only text is answered with "Other", 0.0 and
\* "Back Office (Review)", and neither the size is evaluated, nor the text
\* chunked, nor the client created, nor any call made.
C5_EmptyTextSkipsModel ==
    \A r \in Reqs :
        (Reached(r, "TextExtracted") /\ Strip(req[r].text) = <<>>) =>
            /\ ~Reached(r, "SizeEvaluated")
            /\ ~Reached(r, "Chunked")
            /\ req[r].chunks = <<>>
            /\ openrouter_client = "None" /\ created = 0
            /\ calls = <<>>
            /\ req[r].pc \in {"extracted", "respond", "done"}
            /\ Answered(r) =>
                  /\ req[r].result.label = "Other"
                  /\ req[r].result.confidence = Num(0)
                  /\ req[r].result.routing = "Back Office (Review)"

\* C5 witness: a whitespace-only upload answered.
C5_Witness ==
    \E r \in Reqs :
        /\ Done(r)
        /\ Reached(r, "TextExtracted")
        /\ req[r].file.content # <<>>
        /\ req[r].text = <<>>
        /\ req[r].result.label = "Other"

ExpectedRouting(label) ==
    CASE label = "Invoice" -> "Accounts Payable"
      [] label = "Purchase Order" -> "Procurement"
      [] label = "Contract" -> "Legal"
      [] label = "Expense Report" -> "Finance"
      [] label = "Other" -> "Back Office (Review)"
      [] OTHER -> "no route"

\* C6: in every result the routing is the routing table's entry for the
\* label, and the routing table never changes.
C6_RoutingFollowsLabel ==
    /\ DOMAIN routing_rules = Labels
    /\ \A label \in Labels : routing_rules[label] = ExpectedRouting(label)
    /\ \A r \in Reqs :
          Answered(r) => req[r].result.routing = ExpectedRouting(req[r].result.label)

\* C6 witness: a large document labelled Contract and routed to Legal.
C6_Witness ==
    \E r \in Reqs :
        /\ Done(r)
        /\ req[r].branch = "large"
        /\ req[r].result.label = "Contract"
        /\ req[r].result.routing = "Legal"

\* C7: the confidence of every classification result is a number in [0, 1].
C7_ConfidenceInUnitInterval ==
    \A r \in Reqs :
        req[r].pc = "build" =>
            LET confidence == req[r].classification_result.confidence
            IN  confidence.t = "num" /\ 0 <= confidence.n /\ confidence.n <= 10

\* r carries a non-empty document that is not large, and its size was evaluated.
SmallRequest(r) ==
    /\ Reached(r, "SizeEvaluated")
    /\ req[r].text # <<>>
    /\ Len(req[r].text) <= LargeThreshold

\* The size test agrees with the length, and a small document is neither
\* chunked nor summarized; every classification call for it carries the full
\* extracted text.
SmallBypasses(r) ==
    /\ Reached(r, "SizeEvaluated") =>
          /\ req[r].branch = "large" <=> Len(req[r].text) > LargeThreshold
          /\ req[r].branch = "small" <=> Len(req[r].text) <= LargeThreshold
    /\ SmallRequest(r) =>
          /\ req[r].chunks = <<>> /\ req[r].selected = <<>>
          /\ ~Reached(r, "Chunked") /\ ~Reached(r, "Sampled") /\ ~Reached(r, "Summarized")
          /\ CallsOf(r, "summarize") = {}
          /\ Cardinality(CallsOf(r, "classify")) <= 1
          /\ \A i \in CallsOf(r, "classify") :
                calls[i].input = req[r].text /\ calls[i].input = Strip(req[r].file.content)

\* C11 as stated: is_large_document(text) is true exactly when len(text) > 3000
\* (3000 characters is not large), and a non-empty document that is not large
\* bypasses chunking and summarization and causes exactly one classification
\* call, on the full extracted text.
C11_SmallDocumentOneCall ==
    \A r \in Reqs :
        /\ SmallBypasses(r)
        /\ (SmallRequest(r) /\ Done(r)) => Cardinality(CallsOf(r, "classify")) = 1

\* C11 amended: the same, with exactly one classification call when the
\* client can be created; when it cannot (no API key) no call is made and the
\* request is answered with the default.
C11_SmallDocumentOneCallWithClient ==
    \A r \in Reqs :
        /\ SmallBypasses(r)
        /\ (SmallRequest(r) /\ Done(r)) =>
              IF api_key
              THEN Cardinality(CallsOf(r, "classify")) = 1
              ELSE CallsOf(r, "classify") = {} /\ req[r].result.label = "Other"

\* C11 witness: a document of exactly 3000 characters was classified with one
\* call on its full text and no chunking.
C11_Witness ==
    \E r \in Reqs :
        /\ Done(r)
        /\ Len(req[r].text) = LargeThreshold
        /\ req[r].branch = "small"
        /\ req[r].chunks = <<>>
        /\ Len(calls) = 1
        /\ calls[1].op = "classify" /\ calls[1].status = "text"
        /\ calls[1].input = req[r].text

\* r carries a large document, and its size was evaluated.
LargeRequest(r) == Reached(r, "SizeEvaluated") /\ Len(req[r].text) > LargeThreshold

\* what summarize_chunks returns when the summarization failed
SummaryFailures ==
    {Summarize(reply) : reply \in {x \in SummaryReplies : SummaryStatus(x) # "text"}}

\* At most one call of each kind is made for a large document, the
\* summarization has returned before the classification is sent, the
\* summarization is given the selected chunks, and the classification is
\* given what the summarization returned or, without one, the selected chunks
\* joined; it is never given the full text.
LargeCallsInOrder(r) ==
    LargeRequest(r) =>
        /\ Cardinality(CallsOf(r, "classify")) <= 1
        /\ Cardinality(CallsOf(r, "summarize")) <= 1
        /\ \A i \in CallsOf(r, "summarize") :
              /\ calls[i].input = Join(req[r].selected, CHUNK_SEPARATOR)
              /\ \A k \in 1..Len(req[r].selected) :
                    \E c \in 1..Len(req[r].chunks) : req[r].chunks[c] = req[r].selected[k]
              /\ \A j \in CallsOf(r, "classify") : i < j /\ calls[i].status # "pending"
        /\ \A j \in CallsOf(r, "classify") :
              /\ calls[j].input # req[r].text
              /\ IF CallsOf(r, "summarize") = {}
                 THEN calls[j].input = Join(req[r].selected, <<"\n", "\n">>)
                 ELSE calls[j].input \in {Summarize(reply) : reply \in SummaryReplies}

MissingField(reply) ==
    /\ reply.status = "text"
    /\ ~ JSONDecodeError(StripFences(reply.tokens))
    /\ StripFences(reply.tokens)[1].json.kind = "object"
    /\ ~ (RequiredKeys \subseteq StripFences(reply.tokens)[1].json.keys)

\* C15: when the reply parses as JSON but lacks a required field, the client
\* recovers as it does for unparseable output: a category of the category set
\* found in the raw text is returned with confidence 0.5 and the manual-review
\* summary, and the result is "Other" only when the recovery finds none.
C15_MissingFieldsRecovered ==
    \A r \in Reqs :
        (req[r].pc = "build" /\ MissingField(req[r].reply)) =>
            LET recovered == Recover(req[r].reply.tokens, routing_rules)
            IN  /\ req[r].classification_result.category = recovered.category
                /\ recovered.category # Str("Other") =>
                      req[r].classification_result = recovered

-----------------------------------------------------------------------------
(* Claims about termination, checked under SpecRun.  Termination is stated *)
(* by a variant: every step of a request moves it to a later position, or  *)
(* keeps it in the loop of chunk_text with a larger start below len(text), *)
(* so a request takes finitely many steps; and a request in progress is    *)
(* never stuck, given that a call to the LLM service returns or raises.    *)

StageOrder ==
    <<"Received", "TextExtracted", "SizeEvaluated", "Chunked", "Sampled",
      "Summarized", "Classified", "ResultBuilt">>

Position(stage) == CHOOSE i \in 1..Len(StageOrder) : StageOrder[i] = stage

PcOrder ==
    <<"idle", "read", "extracted", "small", "chunk_text", "chunk_loop", "chunk_done",
      "summarize", "summarize_wait", "classify", "classify_wait", "build", "respond",
      "done">>

PcPosition(pc) == CHOOSE i \in 1..Len(PcOrder) : PcOrder[i] = pc

\* the stages r has passed are in the order of StageOrder, none twice
Forward(r) ==
    \A i \in 1..(Len(req[r].stages) - 1) :
        Position(req[r].stages[i]) < Position(req[r].stages[i + 1])

\* a step never takes a stage back: the stages passed only grow
StagesKept(r) ==
    /\ Len(req[r].stages) <= Len(req'[r].stages)
    /\ SubSeq(req'[r].stages, 1, Len(req[r].stages)) = req[r].stages

\* a step of r takes it to a later position, or is an iteration of the loop
\* of chunk_text that leaves start strictly larger
StepsForward(r) ==
    req'[r] # req[r] =>
        \/ PcPosition(req'[r].pc) > PcPosition(req[r].pc)
        \/ /\ req[r].pc = "chunk_loop" /\ req'[r].pc = "chunk_loop"
           /\ req[r].start < Len(req[r].text)
           /\ req'[r].start > req[r].start

InProgress(r) == req[r].pc \notin {"idle", "done"} /\ ~Returned(r)

\* the next step of r can be taken: the event loop is free for a request that
\* resumes after its read, and is held by r everywhere else
CanStep(r) == IF req[r].pc = "read" THEN loop = 0 ELSE loop = r

\* r was taken on by the classifier and has ended: it ended in a result
EndedInResult(r) ==
    (req[r].pc = "done" /\ Reached(r, "Received")) =>
        /\ req[r].outcome = "result"
        /\ req[r].stages[Len(req[r].stages)] = "ResultBuilt"
        /\ req[r].result.label \in Labels

\* C13: a request taken on by the classifier passes the stages Received,
\* TextExtracted, SizeEvaluated, Chunked, Sampled, Summarized, Classified,
\* ResultBuilt only forwards, never re-enters an earlier one and ends in a
\* result, given that every model call returns or raises; the loop of
\* chunk_text ends for every text, chunk_size >= 1 and chunk_overlap >= 0,
\* because start grows in every iteration.
C13_TerminatesForward ==
    /\ [](\A r \in Reqs : Forward(r) /\ EndedInResult(r) /\ (InProgress(r) => CanStep(r)))
    /\ [][\A r \in Reqs : StagesKept(r) /\ StepsForward(r)]_vars

\* C13 witness: a large document went through every stage, its text cut into
\* more than two hundred chunks, and was answered.
C13_Witness ==
    \E r \in Reqs :
        /\ Done(r)
        /\ req[r].stages = StageOrder
        /\ Len(req[r].chunks) > DefaultChunkOverlap
        /\ req[r].start >= Len(req[r].text)

-----------------------------------------------------------------------------
(* Claims about requests in flight together, checked under SpecServer.     *)

\* r has sent a summarization or classification request and waits for the reply.
Waiting(r) == req[r].pc \in {"summarize_wait", "classify_wait"}

\* r is ready to run: it has yet to be taken on, or its upload has been read.
Ready(r) == r \in arrivals \/ req[r].pc = "read"

\* the server starts r or resumes it after the read
Advance(r) ==
    \/ \E file \in ServerFiles : Receive(r, file)
    \/ \E pdf_raises \in BOOLEAN : ExtractText(r, pdf_raises)

\* C12: while one request waits for the reply to a classification or
\* summarization call, the other requests are not blocked: the server can
\* start or advance a request that is ready to run.
C12_OthersNotBlocked ==
    \A r \in Reqs : \A other \in Reqs \ {r} :
        (Waiting(r) /\ Ready(other)) => ENABLED Advance(other)

\* r has called get_openrouter_client and the call has returned or raised.
CalledGetClient(r) ==
    /\ req[r].branch \in {"small", "large"}
    /\ req[r].pc \notin {"small", "chunk_text", "chunk_loop", "chunk_done"}

\* the creation of the client failed for r: the constructor raised
CreationFailed(r) ==
    /\ CalledGetClient(r)
    /\ CallsOf(r, "classify") = {} /\ CallsOf(r, "summarize") = {}
    /\ req[r].pc \notin {"classify", "summarize"}

\* the handle, once set, is neither replaced nor reset, and no client is
\* constructed any more
HandleKept ==
    openrouter_client # "None" =>
        openrouter_client' = openrouter_client /\ created' = created

\* C16: with any number of requests calling get_openrouter_client, at most
\* one OpenRouterClient is created; once it exists every later call returns
\* it and no request replaces or resets the handle; a failed creation leaves
\* the handle unset, and the next call runs the constructor again.
C16_ClientCreatedOnce ==
    /\ [](/\ created <= 1
          /\ openrouter_client = "None" <=> created = 0
          /\ \A r \in Reqs :
                CalledGetClient(r) =>
                    IF api_key
                    THEN openrouter_client = "OpenRouterClient" /\ ~CreationFailed(r)
                    ELSE /\ openrouter_client = "None"
                         /\ CreationFailed(r)
                         /\ Answered(r) => req[r].result.summary.e = NoApiKey)
    /\ [][HandleKept]_vars

\* C16 witness: every request, one with a small and one with a large document
\* among them, has obtained the client and been answered from a reply of the
\* model, and one client was created.
C16_Witness ==
    /\ created = 1
    /\ \A r \in Reqs : Done(r) /\ \E i \in CallsOf(r, "classify") : calls[i].status = "text"
    /\ \E r \in Reqs : req[r].branch = "small"
    /\ \E r \in Reqs : req[r].branch = "large"

-----------------------------------------------------------------------------
(* Claims about chunk_text, checked under SpecChunk and SpecChunkAll.      *)

ChunkCalls == {r \in Reqs : req[r].pc \in {"chunk_loop", "chunk_done"}}
Chunked(r) == Len(req[r].text) > pdf_processor.chunk_size

\* C8: in chunk_text on a text longer than chunk_size, a chunk whose source
\* range reaches the end of the text is the final chunk: no chunk is appended
\* after it.
C8_EndReachingChunkIsFinal ==
    \A r \in ChunkCalls :
        Chunked(r) =>
            \A k \in 1..(Len(req[r].ranges) - 1) :
                req[r].ranges[k][2] < Len(req[r].text)

\* C9: for a text longer than chunk_size, with 0 <= chunk_overlap < chunk_size,
\* the chunks returned cover the text: every character that is not whitespace
\* lies in the source range of some chunk.
C9_ChunksCoverText ==
    \A r \in ChunkCalls :
        ( /\ req[r].pc = "chunk_done"
          /\ Chunked(r)
          /\ pdf_processor.chunk_overlap < pdf_processor.chunk_size )
        => \A i \in 0..(Len(req[r].text) - 1) :
              req[r].text[i + 1] \notin Whitespace =>
                  \E k \in 1..Len(req[r].ranges) :
                      req[r].ranges[k][1] <= i /\ i < req[r].ranges[k][2]

\* C10: every chunk has at most chunk_size characters, and the end of its
\* source range is never after start + chunk_size: boundary snapping only moves
\* the end backwards.
C10_ChunkAtMostChunkSize ==
    \A r \in ChunkCalls :
        \A k \in 1..Len(req[r].chunks) :
            /\ Len(req[r].chunks[k]) <= pdf_processor.chunk_size
            /\ req[r].ranges[k][2] <= req[r].ranges[k][1] + pdf_processor.chunk_size

\* C10 witness: a finished call on a long text in which one chunk was cut short
\* at a boundary and another is exactly chunk_size long.
C10_Witness ==
    \E r \in ChunkCalls :
        /\ req[r].pc = "chunk_done"
        /\ Chunked(r)
        /\ \E k \in 1..Len(req[r].ranges) :
              /\ req[r].ranges[k][2] < Len(req[r].text)
              /\ req[r].ranges[k][2] < req[r].ranges[k][1] + pdf_processor.chunk_size
        /\ \E k \in 1..Len(req[r].chunks) :
              Len(req[r].chunks[k]) = pdf_processor.chunk_size

====
